---- MODULE Spec2Model ----
(***************************************************************************)
(* Course catalog service (src/app.py): HTTP route handlers over one JSON  *)
(* file of course entries, with one JSON log entry appended per logger     *)
(* call.  Strings are sequences of one-character strings so that strip()   *)
(* and the byte size of the dumped JSON can be computed.                   *)
(***************************************************************************)
EXTENDS Integers, Sequences, FiniteSets, TLC

VARIABLES catalog, fileState, log, pc, req, resp, course, courses

vars == <<catalog, fileState, log, pc, req, resp, course, courses>>

\* Requests that do not overlap are served while the log file holds fewer
\* than MaxLog entries (the log file only ever grows).
MaxLog == 2

\* Largest number of entries the catalog file holds when the service starts.
MaxStock == 1

\* Request-handling threads of the development server.
Threads == {"t1", "t2"}

\* The thread that serves the requests when requests do not overlap.
Serial == "t1"

----------------------------------------------------------------------------
\* Strings and str.strip()

Whitespace == {" ", "\t", "\n"}

RECURSIVE LStrip(_)
LStrip(s) == IF s = <<>> THEN s
             ELSE IF Head(s) \in Whitespace THEN LStrip(Tail(s)) ELSE s

RECURSIVE RStrip(_)
RStrip(s) == IF s = <<>> THEN s
             ELSE IF s[Len(s)] \in Whitespace
                  THEN RStrip(SubSeq(s, 1, Len(s) - 1)) ELSE s

\* Variant of Strip: only leading whitespace is removed.
Strip_LeftOnly(s) == LStrip(s)

Strip(s) == RStrip(LStrip(s))

----------------------------------------------------------------------------
\* Request inputs

\* Values of the form field 'code'.
RawCodes == { <<" ">>, <<" ", "a">>, <<"b", "\t">> }

\* Values of the form field 'name'.
RawNames == { <<>>, <<"n", " ", "m", " ">> }

\* Values of the form field 'instructor'.
RawInstructors == { <<" ", " ">>, <<"i">> }

\* Values of the five optional form fields: all blank, or all filled in.
RawOptionals ==
    { [semester |-> <<>>, schedule |-> <<" ">>, classroom |-> <<>>,
       prerequisites |-> <<>>, grading |-> <<>>],
      [semester |-> <<" ", "s">>, schedule |-> <<"d">>, classroom |-> <<"r", " ">>,
       prerequisites |-> <<"p">>, grading |-> <<"g">>] }

\* request.form of a POST to /add_course, as the add form submits it: all
\* eight fields are present, filled in or not.
Forms ==
    { [code |-> c, name |-> n, instructor |-> i,
       semester |-> o.semester, schedule |-> o.schedule, classroom |-> o.classroom,
       prerequisites |-> o.prerequisites, grading |-> o.grading] :
      c \in RawCodes, n \in RawNames, i \in RawInstructors, o \in RawOptionals }

\* Values of <code> in the URLs /course/<code> and /delete_course/<code>.
UrlCodes == { <<"a">>, <<"b">> }

----------------------------------------------------------------------------
\* Option values: None is <<>>, a present value x is <<x>>.

None == <<>>

Some(x) == <<x>>

----------------------------------------------------------------------------
\* Storage

\* The file can be parsed as JSON: json.load succeeds.
Parseable(fs) == fs \in {"missing", "json"}

\* load_courses(): [] when the file does not exist, else the parsed array.
load_courses(fs, cat) == IF fs = "missing" THEN <<>> ELSE cat

\* Variant of AppendCourse: the list is replaced by the new course.
AppendCourse_Overwrite(cs, data) == <<data>>

\* Variant of AppendCourse: the new course goes to the front of the list.
AppendCourse_Front(cs, data) == <<data>> \o cs

\* courses.append(data) in save_courses
AppendCourse(cs, data) == Append(cs, data)

\* Variant of FindCourse: the first course of the list, whatever its code.
FindCourse_AnyCode(cs, code) == IF cs = <<>> THEN None ELSE Some(Head(cs))

\* next((course for course in courses if course['code'] == code), None)
RECURSIVE FindCourse(_, _)
FindCourse(cs, code) ==
    IF cs = <<>> THEN None
    ELSE IF Head(cs).code = code THEN Some(Head(cs))
         ELSE FindCourse(Tail(cs), code)

\* Variant of RemoveCode: only the first course with the code is removed.
RECURSIVE RemoveCode_FirstOnly(_, _)
RemoveCode_FirstOnly(cs, code) ==
    IF cs = <<>> THEN <<>>
    ELSE IF Head(cs).code = code
         THEN Tail(cs)
         ELSE <<Head(cs)>> \o RemoveCode_FirstOnly(Tail(cs), code)

\* [course for course in courses if course['code'] != code]
RECURSIVE RemoveCode(_, _)
RemoveCode(cs, code) ==
    IF cs = <<>> THEN <<>>
    ELSE IF Head(cs).code # code
         THEN <<Head(cs)>> \o RemoveCode(Tail(cs), code)
         ELSE RemoveCode(Tail(cs), code)

\* The course dict built from request.form: every field stripped.
CourseOf(form) ==
    [code |-> Strip(form.code), name |-> Strip(form.name),
     instructor |-> Strip(form.instructor), semester |-> Strip(form.semester),
     schedule |-> Strip(form.schedule), classroom |-> Strip(form.classroom),
     prerequisites |-> Strip(form.prerequisites), grading |-> Strip(form.grading)]

\* Variant of MissingFields: the instructor is not checked.
MissingFields_NoInstructor(c) ==
    (IF c.code = <<>> THEN <<"code">> ELSE <<>>) \o
    (IF c.name = <<>> THEN <<"name">> ELSE <<>>)

\* [field for field in ['code', 'name', 'instructor'] if not course[field]]
MissingFields(c) ==
    (IF c.code = <<>> THEN <<"code">> ELSE <<>>) \o
    (IF c.name = <<>> THEN <<"name">> ELSE <<>>) \o
    (IF c.instructor = <<>> THEN <<"instructor">> ELSE <<>>)

----------------------------------------------------------------------------
\* Requests, responses, flashes and log entries

Request(route, method, code) == [route |-> route, method |-> method, code |-> code]

NoRequest == Request("none", "none", <<>>)

Response(kind, target, flashes) == [kind |-> kind, target |-> target, flashes |-> flashes]

NoResponse == Response("none", "none", <<>>)

Flash(category, message, arg) == [category |-> category, message |-> message, arg |-> arg]

\* JsonFileHandler.emit: the entry is appended to the JSON array of the log file.
Emit(lg, entry) == Append(lg, entry)

\* The log entries of the handlers; processing_time is a wall-clock reading
\* and is recorded only as present.
LogIndex ==
    [level |-> "INFO", event |-> "index-page", method |-> "GET", url |-> "/",
     processing_time |-> "elapsed"]

LogCatalog(n) ==
    [level |-> "INFO", event |-> "catalog-page", method |-> "GET", course_count |-> n,
     processing_time |-> "elapsed"]

LogAddError(missing) ==
    [level |-> "WARNING", event |-> "add-course-error", missing_fields |-> missing]

LogAdded(c) ==
    [level |-> "INFO", event |-> "course-added", course_code |-> c.code,
     course_name |-> c.name, processing_time |-> "elapsed"]

LogAddPage ==
    [level |-> "INFO", event |-> "add-course-page", method |-> "GET",
     url |-> "/add_course", processing_time |-> "elapsed"]

LogNotFound(code) ==
    [level |-> "WARNING", event |-> "course-not-found", course_code |-> code]

LogViewed(code) ==
    [level |-> "INFO", event |-> "course-details-viewed", course_code |-> code,
     processing_time |-> "elapsed"]

LogDeleted(code) ==
    [level |-> "INFO", event |-> "course-deleted", course_code |-> code]

LogDeleteDone(code) ==
    [level |-> "INFO", event |-> "course-deleted", course_code |-> code,
     processing_time |-> "elapsed"]

LogManual ==
    [level |-> "INFO", event |-> "manual-trace", method |-> "GET",
     url |-> "/manual-trace", processing_time |-> "elapsed"]

\* The flashes and responses of the handlers.
FlashMissing(missing) ==
    Flash("error", "The following required fields are missing: ", missing)

FlashNoCourse(code) == Flash("error", "No course found with code ", code)

FlashDeleted(code) == Flash("success", "has been deleted successfully", code)

RedirectToCatalog(flashes) == Response("redirect", "course_catalog", flashes)

Render(template, flashes) == Response("render", template, flashes)

----------------------------------------------------------------------------
\* Handlers of requests that do not overlap with another request: each is
\* one step from the route's entry to its return.

Idle == \A t \in Threads : pc[t] = "idle"

Served(p, rq, rs) ==
    /\ req' = [req EXCEPT ![p] = rq]
    /\ resp' = [resp EXCEPT ![p] = rs]
    /\ UNCHANGED <<pc, course, courses>>

index(p) ==
    /\ Idle
    /\ Len(log) < MaxLog
    /\ log' = Emit(log, LogIndex)
    /\ Served(p, Request("index", "GET", <<>>), Render("index.html", <<>>))
    /\ UNCHANGED <<catalog, fileState>>

course_catalog(p) ==
    /\ Idle
    /\ Parseable(fileState)
    /\ Len(log) < MaxLog
    /\ log' = Emit(log, LogCatalog(Len(load_courses(fileState, catalog))))
    /\ Served(p, Request("course_catalog", "GET", <<>>),
              Render("course_catalog.html", <<>>))
    /\ UNCHANGED <<catalog, fileState>>

add_course_get(p) ==
    /\ Idle
    /\ Len(log) < MaxLog
    /\ log' = Emit(log, LogAddPage)
    /\ Served(p, Request("add_course", "GET", <<>>), Render("add_course.html", <<>>))
    /\ UNCHANGED <<catalog, fileState>>

\* Variant of save_courses: a course whose code is in the list is not added.
save_courses_unique(data) ==
    /\ Parseable(fileState)
    /\ catalog' = IF FindCourse(load_courses(fileState, catalog), data.code) # None
                  THEN load_courses(fileState, catalog)
                  ELSE AppendCourse(load_courses(fileState, catalog), data)
    /\ fileState' = "json"

\* save_courses(data) without interleaving: load, append, rewrite the file.
save_courses(data) ==
    /\ Parseable(fileState)
    /\ catalog' = AppendCourse(load_courses(fileState, catalog), data)
    /\ fileState' = "json"

add_course_post(p, form) ==
    LET c == CourseOf(form)
        missing_fields == MissingFields(c)
    IN  /\ Idle
        /\ Len(log) < MaxLog
        /\ IF missing_fields # <<>>
           THEN /\ log' = Emit(log, LogAddError(missing_fields))
                /\ Served(p, Request("add_course", "POST", c.code),
                          Render("add_course.html", <<FlashMissing(missing_fields)>>))
                /\ UNCHANGED <<catalog, fileState>>
           ELSE /\ save_courses(c)
                /\ log' = Emit(log, LogAdded(c))
                /\ Served(p, Request("add_course", "POST", c.code),
                          RedirectToCatalog(<<>>))

course_details(p, code) ==
    LET found == FindCourse(load_courses(fileState, catalog), code)
    IN  /\ Idle
        /\ Parseable(fileState)
        /\ Len(log) < MaxLog
        /\ IF found = None
           THEN /\ log' = Emit(log, LogNotFound(code))
                /\ Served(p, Request("course_details", "GET", code),
                          RedirectToCatalog(<<FlashNoCourse(code)>>))
           ELSE /\ log' = Emit(log, LogViewed(code))
                /\ Served(p, Request("course_details", "GET", code),
                          Render("course_details.html", <<>>))
        /\ UNCHANGED <<catalog, fileState>>

delete_course(p, code) ==
    LET loaded == load_courses(fileState, catalog)
        course_to_delete == FindCourse(loaded, code)
    IN  /\ Idle
        /\ Len(log) < MaxLog
        /\ Parseable(fileState)
        /\ IF course_to_delete # None
           THEN /\ catalog' = RemoveCode(loaded, code)
                /\ fileState' = "json"
                /\ log' = Emit(Emit(log, LogDeleted(code)), LogDeleteDone(code))
                /\ Served(p, Request("delete_course", "POST", code),
                          RedirectToCatalog(<<FlashDeleted(code)>>))
           ELSE /\ UNCHANGED <<catalog, fileState>>
                /\ log' = Emit(log, LogDeleteDone(code))
                /\ Served(p, Request("delete_course", "POST", code),
                          RedirectToCatalog(<<FlashNoCourse(code)>>))

manual_trace(p) ==
    /\ Idle
    /\ Len(log) < MaxLog
    /\ log' = Emit(log, LogManual)
    /\ Served(p, Request("manual_trace", "GET", <<>>),
              Response("text", "Manual trace finished", <<>>))
    /\ UNCHANGED <<catalog, fileState>>

\* The courses an accepted POST to /add_course writes.
StockCourses == { CourseOf(form) : form \in { f \in Forms : MissingFields(CourseOf(f)) = <<>> } }

\* The catalogs earlier runs of the service can have left in the file.
StockCatalogs == UNION { [1..n -> StockCourses] : n \in 0..MaxStock }

NoRequestInProgress ==
    /\ log = <<>>
    /\ pc = [t \in Threads |-> "idle"]
    /\ req = [t \in Threads |-> NoRequest]
    /\ resp = [t \in Threads |-> NoResponse]
    /\ course = [t \in Threads |-> None]
    /\ courses = [t \in Threads |-> <<>>]

\* The service starts with the catalog file an earlier run left (or with
\* none) and a new log file holding the empty array.
Init ==
    /\ catalog \in StockCatalogs
    /\ fileState \in IF catalog = <<>> THEN {"missing", "json"} ELSE {"json"}
    /\ NoRequestInProgress

\* The service starts with the catalog file missing or holding the empty array.
InitFresh ==
    /\ catalog = <<>>
    /\ fileState \in {"missing", "json"}
    /\ NoRequestInProgress

Next ==
    \/ index(Serial)
    \/ course_catalog(Serial)
    \/ add_course_get(Serial)
    \/ \E form \in Forms : add_course_post(Serial, form)
    \/ \E code \in UrlCodes : course_details(Serial, code)
    \/ \E code \in UrlCodes : delete_course(Serial, code)
    \/ manual_trace(Serial)

Spec == Init /\ [][Next]_vars

SpecFresh == InitFresh /\ [][Next]_vars

----------------------------------------------------------------------------
\* Two requests that write the catalog, served by two threads at once.  A
\* thread takes one step per access to the catalog file or to the log file.

\* Number of bytes json.dump(courses, file, indent=4) writes.
RECURSIVE ValueBytes(_)
ValueBytes(cs) ==
    IF cs = <<>> THEN 0
    ELSE Len(Head(cs).code) + Len(Head(cs).name) + Len(Head(cs).instructor)
         + Len(Head(cs).semester) + Len(Head(cs).schedule) + Len(Head(cs).classroom)
         + Len(Head(cs).prerequisites) + Len(Head(cs).grading) + ValueBytes(Tail(cs))

JsonSize(cs) == 2 + 203 * Len(cs) + ValueBytes(cs)

\* Number of bytes in the catalog file.  When the file is garbage, catalog
\* holds the list whose trailing bytes are still in the file.
FileSize == IF fileState \in {"json", "garbage"} THEN JsonSize(catalog) ELSE 0

\* json.load raises: the request ends with a server error.
ServerError == Response("error", "JSONDecodeError", <<>>)

\* open(COURSE_FILE, 'w'): the file is created or emptied.
OpenForWriting ==
    /\ fileState' = "truncated"
    /\ catalog' = <<>>

\* json.dump followed by the close of the file: the bytes go to offset 0 of
\* the file as it is now; bytes beyond them, written by another thread since
\* this thread opened the file, stay.
Dump(cs) ==
    IF FileSize <= JsonSize(cs)
    THEN /\ fileState' = "json"
         /\ catalog' = cs
    ELSE /\ fileState' = "garbage"
         /\ UNCHANGED catalog

\* add_course, POST, up to the validation of the form
add_begin(p, form) ==
    LET c == CourseOf(form)
        missing_fields == MissingFields(c)
    IN  /\ pc[p] = "start"
        /\ course' = [course EXCEPT ![p] = Some(c)]
        /\ req' = [req EXCEPT ![p] = Request("add_course", "POST", c.code)]
        /\ IF missing_fields # <<>>
           THEN /\ log' = Emit(log, LogAddError(missing_fields))
                /\ resp' = [resp EXCEPT ![p] =
                              Render("add_course.html", <<FlashMissing(missing_fields)>>)]
                /\ pc' = [pc EXCEPT ![p] = "done"]
           ELSE /\ pc' = [pc EXCEPT ![p] = "save_load"]
                /\ UNCHANGED <<log, resp>>
        /\ UNCHANGED <<catalog, fileState, courses>>

\* save_courses: courses = load_courses(); courses.append(data)
save_load(p) ==
    /\ pc[p] = "save_load"
    /\ IF Parseable(fileState)
       THEN /\ courses' = [courses EXCEPT ![p] =
                             AppendCourse(load_courses(fileState, catalog), course[p][1])]
            /\ pc' = [pc EXCEPT ![p] = "save_open"]
            /\ UNCHANGED resp
       ELSE /\ resp' = [resp EXCEPT ![p] = ServerError]
            /\ pc' = [pc EXCEPT ![p] = "done"]
            /\ UNCHANGED courses
    /\ UNCHANGED <<catalog, fileState, log, req, course>>

\* save_courses: open(COURSE_FILE, 'w')
save_open(p) ==
    /\ pc[p] = "save_open"
    /\ OpenForWriting
    /\ pc' = [pc EXCEPT ![p] = "save_dump"]
    /\ UNCHANGED <<log, req, resp, course, courses>>

\* Variant of save_dump: the course is appended to what the file holds when
\* the write happens.
save_dump_merge(p) ==
    /\ pc[p] = "save_dump"
    /\ fileState' = "json"
    /\ catalog' = IF fileState = "json"
                  THEN Append(catalog, course[p][1])
                  ELSE courses[p]
    /\ pc' = [pc EXCEPT ![p] = "add_log"]
    /\ UNCHANGED <<log, req, resp, course, courses>>

\* save_courses: json.dump(courses, file, indent=4)
save_dump(p) ==
    /\ pc[p] = "save_dump"
    /\ Dump(courses[p])
    /\ pc' = [pc EXCEPT ![p] = "add_log"]
    /\ UNCHANGED <<log, req, resp, course, courses>>

\* add_course: the log entry and the redirect after save_courses
add_finish(p) ==
    /\ pc[p] = "add_log"
    /\ log' = Emit(log, LogAdded(course[p][1]))
    /\ resp' = [resp EXCEPT ![p] = RedirectToCatalog(<<>>)]
    /\ pc' = [pc EXCEPT ![p] = "done"]
    /\ UNCHANGED <<catalog, fileState, req, course, courses>>

\* delete_course: load the courses and look for the code
delete_begin(p, code) ==
    /\ pc[p] = "start"
    /\ req' = [req EXCEPT ![p] = Request("delete_course", "POST", code)]
    /\ IF Parseable(fileState)
       THEN LET loaded == load_courses(fileState, catalog)
                course_to_delete == FindCourse(loaded, code)
            IN  /\ courses' = [courses EXCEPT ![p] = loaded]
                /\ course' = [course EXCEPT ![p] = course_to_delete]
                /\ IF course_to_delete # None
                   THEN /\ pc' = [pc EXCEPT ![p] = "del_open"]
                        /\ UNCHANGED resp
                   ELSE /\ resp' = [resp EXCEPT ![p] =
                                      Response("pending", "", <<FlashNoCourse(code)>>)]
                        /\ pc' = [pc EXCEPT ![p] = "del_finish"]
       ELSE /\ resp' = [resp EXCEPT ![p] = ServerError]
            /\ pc' = [pc EXCEPT ![p] = "done"]
            /\ UNCHANGED <<course, courses>>
    /\ UNCHANGED <<catalog, fileState, log>>

\* delete_course: filter the loaded list and open the file for writing
delete_open(p) ==
    /\ pc[p] = "del_open"
    /\ courses' = [courses EXCEPT ![p] = RemoveCode(courses[p], req[p].code)]
    /\ OpenForWriting
    /\ pc' = [pc EXCEPT ![p] = "del_dump"]
    /\ UNCHANGED <<log, req, resp, course>>

\* delete_course: json.dump(courses, file, indent=4)
delete_dump(p) ==
    /\ pc[p] = "del_dump"
    /\ Dump(courses[p])
    /\ pc' = [pc EXCEPT ![p] = "del_log"]
    /\ UNCHANGED <<log, req, resp, course, courses>>

\* delete_course: the log entry and the flash of the branch that deleted
delete_log(p) ==
    /\ pc[p] = "del_log"
    /\ log' = Emit(log, LogDeleted(req[p].code))
    /\ resp' = [resp EXCEPT ![p] = Response("pending", "", <<FlashDeleted(req[p].code)>>)]
    /\ pc' = [pc EXCEPT ![p] = "del_finish"]
    /\ UNCHANGED <<catalog, fileState, req, course, courses>>

\* delete_course: the log entry and the redirect that end both branches
delete_finish(p) ==
    /\ pc[p] = "del_finish"
    /\ log' = Emit(log, LogDeleteDone(req[p].code))
    /\ resp' = [resp EXCEPT ![p] = RedirectToCatalog(resp[p].flashes)]
    /\ pc' = [pc EXCEPT ![p] = "done"]
    /\ UNCHANGED <<catalog, fileState, req, course, courses>>

\* The catalog the two overlapping requests find.
RaceBase ==
    <<CourseOf([code |-> <<"a">>, name |-> <<"n">>, instructor |-> <<"i">>,
                semester |-> <<"s">>, schedule |-> <<>>, classroom |-> <<>>,
                prerequisites |-> <<>>, grading |-> <<>>])>>

InitRace ==
    /\ catalog = RaceBase
    /\ fileState = "json"
    /\ log = <<>>
    /\ pc = [t \in Threads |-> "start"]
    /\ req = [t \in Threads |-> NoRequest]
    /\ resp = [t \in Threads |-> NoResponse]
    /\ course = [t \in Threads |-> None]
    /\ courses = [t \in Threads |-> <<>>]

NextRace ==
    \E p \in Threads :
        \/ \E form \in Forms : add_begin(p, form)
        \/ save_load(p)
        \/ save_open(p)
        \/ save_dump(p)
        \/ add_finish(p)
        \/ \E code \in UrlCodes : delete_begin(p, code)
        \/ delete_open(p)
        \/ delete_dump(p)
        \/ delete_log(p)
        \/ delete_finish(p)

SpecRace == InitRace /\ [][NextRace]_vars

----------------------------------------------------------------------------
\* Properties

\* Some entry of the catalog file carries the code.
HasCode(code) == \E i \in 1..Len(catalog) : catalog[i].code = code

\* Number of entries of the catalog file that carry the code.
CountCode(code) == Cardinality({ i \in 1..Len(catalog) : catalog[i].code = code })

\* The value is empty after whitespace stripping: it has only whitespace.
Blank(s) == \A i \in 1..Len(s) : s[i] \in Whitespace

RequiredFields == {"code", "name", "instructor"}

\* The required fields of the form that are blank.
BlankFields == [form \in Forms |-> { f \in RequiredFields : Blank(form[f]) }]

\* The forms with no blank required field, and the others.
ValidForms == { form \in Forms : BlankFields[form] = {} }

InvalidForms == Forms \ ValidForms

FileUnchanged == catalog' = catalog /\ fileState' = fileState

\* The last request served without overlap was this route and method.
Last(route, method) == req[Serial].route = route /\ req[Serial].method = method

\* The step serves, without overlap, a request of this route and method.
Serves(route, method) ==
    /\ log' # log
    /\ req'[Serial].route = route
    /\ req'[Serial].method = method

\* C1: a POST to /add_course whose code, name and instructor are not blank,
\* served without overlap, leaves the catalog with exactly one more entry and
\* answers with a redirect to the catalog page.
C1_AddIncreasesByOne ==
    [][ Serves("add_course", "POST") => \A form \in ValidForms :
          add_course_post(Serial, form)
          => /\ Len(catalog') = Len(catalog) + 1
             /\ resp'[Serial].kind = "redirect"
             /\ resp'[Serial].target = "course_catalog" ]_vars

\* An accepted add to a catalog that already held entries.
C1_Witness ==
    /\ Last("add_course", "POST")
    /\ resp[Serial].kind = "redirect"
    /\ Len(catalog) > 1

\* C2 as stated: a POST to /delete_course/<code> for a code that some entry
\* carries leaves the catalog with exactly one entry fewer.
C2_DeleteRemovesExactlyOne ==
    [][ Serves("delete_course", "POST") => \A code \in UrlCodes :
          (HasCode(code) /\ delete_course(Serial, code))
          => Len(catalog') = Len(catalog) - 1 ]_vars

\* C2 amended: a POST to /delete_course/<code> for a code that some entry
\* carries leaves the catalog with as many entries fewer as carried the code,
\* which is at least one.
C2_DeleteRemovesEveryEntryOfCode ==
    [][ Serves("delete_course", "POST") => \A code \in UrlCodes :
          (HasCode(code) /\ delete_course(Serial, code))
          => /\ Len(catalog') = Len(catalog) - CountCode(code)
             /\ Len(catalog') < Len(catalog) ]_vars

\* A delete that removed entries and left the catalog empty.
C2_Witness ==
    /\ Last("delete_course", "POST")
    /\ resp[Serial].flashes = <<FlashDeleted(req[Serial].code)>>
    /\ catalog = <<>>

\* C3: for a code that no entry carries, GET /course/<code> and
\* POST /delete_course/<code> answer with a redirect to the catalog page that
\* carries the "No course found" error flash, and leave the catalog file as
\* it was.
C3_UnknownCodeRedirects ==
    [][ \A code \in UrlCodes :
          ( /\ ~HasCode(code)
            /\ \/ Serves("course_details", "GET") /\ course_details(Serial, code)
               \/ Serves("delete_course", "POST") /\ delete_course(Serial, code) )
          => /\ resp'[Serial].kind = "redirect"
             /\ resp'[Serial].target = "course_catalog"
             /\ Len(resp'[Serial].flashes) = 1
             /\ resp'[Serial].flashes[1].category = "error"
             /\ resp'[Serial].flashes[1].message = "No course found with code "
             /\ resp'[Serial].flashes[1].arg = code
             /\ FileUnchanged ]_vars

\* A detail request for a code that none of the catalog's entries carries.
C3_Witness ==
    /\ Last("course_details", "GET")
    /\ resp[Serial].kind = "redirect"
    /\ catalog # <<>>

\* C4: a POST to /add_course in which code, name or instructor is blank
\* flashes an error that names exactly the blank required fields, renders the
\* add form again and leaves the catalog file as it was.
C4_MissingFieldsRejected ==
    [][ Serves("add_course", "POST") => \A form \in InvalidForms :
          add_course_post(Serial, form)
          => /\ resp'[Serial].kind = "render"
             /\ resp'[Serial].target = "add_course.html"
             /\ Len(resp'[Serial].flashes) = 1
             /\ resp'[Serial].flashes[1].category = "error"
             /\ LET named == resp'[Serial].flashes[1].arg
                IN  /\ { named[i] : i \in 1..Len(named) } = BlankFields[form]
                    /\ Len(named) = Cardinality(BlankFields[form])
             /\ FileUnchanged ]_vars

\* A rejected add while the catalog held entries.
C4_Witness ==
    /\ Last("add_course", "POST")
    /\ resp[Serial].kind = "render"
    /\ resp[Serial].flashes # <<>>
    /\ catalog # <<>>

\* C5: starting from the empty catalog, a valid POST to /add_course whose
\* code an entry already carries is accepted like any other add: the catalog
\* gains the entry, so that two entries carry the code, and the answer is the
\* redirect.
C5_DuplicateCodeAccepted ==
    [][ Serves("add_course", "POST") => \A form \in ValidForms :
          (HasCode(Strip(form.code)) /\ add_course_post(Serial, form))
          => /\ Len(catalog') = Len(catalog) + 1
             /\ \E i, j \in 1..Len(catalog') :
                   i # j /\ catalog'[i].code = catalog'[j].code
             /\ resp'[Serial] = RedirectToCatalog(<<>>) ]_vars

\* Two entries of the catalog carry the same code.
C5_Witness ==
    \E i, j \in 1..Len(catalog) : i < j /\ catalog[i].code = catalog[j].code

Deletions(lg) == Cardinality({ i \in 1..Len(lg) : lg[i].event = "course-deleted" })

\* C9: a delete request that removes at least one entry appends exactly one
\* "course-deleted" entry to the log, and a delete request whose code no
\* entry carries appends none.
C9_OneLogEntryPerDeletion ==
    [][ Serves("delete_course", "POST") => \A code \in UrlCodes :
          delete_course(Serial, code)
          => Deletions(log') - Deletions(log) = (IF HasCode(code) THEN 1 ELSE 0) ]_vars

\* The field value is not empty and has no whitespace at either end.
Trimmed(s) == s # <<>> /\ s[1] \notin Whitespace /\ s[Len(s)] \notin Whitespace

\* C10: starting from an empty or missing catalog file, after any sequence
\* of adds and deletes served without overlap every entry of the catalog has
\* a code, a name and an instructor that are not empty and have no whitespace
\* at either end.
C10_RequiredFieldsNeverEmpty ==
    \A i \in 1..Len(catalog) :
        \A f \in RequiredFields : Trimmed(catalog[i][f])

\* Two adds were accepted since the catalog was empty.
C10_Witness ==
    /\ Len(catalog) = 2
    /\ Last("add_course", "POST")

\* The thread's request ended with the answer of a write that succeeded.
Completed(p) ==
    /\ pc[p] = "done"
    /\ resp[p].kind = "redirect"
    /\ \/ req[p].route = "add_course"
       \/ resp[p].flashes = <<FlashDeleted(req[p].code)>>

\* The list the thread wrote was made from RaceBase: the thread loaded the
\* catalog before the other thread's write reached the file.
WroteFromBase(p) ==
    IF req[p].route = "add_course"
    THEN courses[p] = Append(RaceBase, course[p][1])
    ELSE courses[p] = SelectSeq(RaceBase, LAMBDA c : c.code # req[p].code)

DeletedCourseStillHeld ==
    \E p, q \in Threads :
        /\ p # q
        /\ Completed(p) /\ Completed(q)
        /\ req[p].route = "delete_course"
        /\ req[q].route = "add_course"
        /\ req[q].code # req[p].code
        /\ fileState = "json"
        /\ HasCode(req[p].code)

\* Both requests wrote, and the file can no longer be parsed.
CatalogFileCorrupted ==
    /\ \A t \in Threads : pc[t] = "done"
    /\ fileState = "garbage"

====
